---- MODULE Spec2Model ----
(***************************************************************************)
(* Model of braid-llm-kit/tools/llm_autofix.py: the fix loop               *)
(* check_and_fix (format once, then up to 10 rounds of write / validate /  *)
(* parse / apply) and the edit applier apply_fixes.                        *)
(*                                                                         *)
(* Text is a sequence of one-character strings.  The validator's standard  *)
(* output is a sequence of segments, the pieces of the text between the    *)
(* line boundaries str.splitlines() splits at: the newline, and \x0b, \x0c,*)
(* \x1c, \x1d, \x1e, \x85, U+2028 and U+2029, for which the form feed      *)
(* stands (text=True has turned \r\n and \r into newlines).  A segment     *)
(* records the boundary that ends it, "" on the last one: "" is            *)
(* <<EmptySeg>>, "x" is <<x>>, "x\n" is <<x ended by "\n", EmptySeg>>.  A   *)
(* segment also records what json.loads makes of its characters, which     *)
(* hold no line boundary; a fix records what apply_fixes reads of it.      *)
(***************************************************************************)
EXTENDS Integers, Sequences, FiniteSets, TLC

\* ------------------------------------------------------------------ bounds
\* Longest buffer the validator is allowed to grow the document to.
MaxBufLen == 3
\* Most newline-separated segments of one validator output.
MaxSegs == 2
\* Most edits in one call of apply_fixes in SpecApply.
MaxEdits == 3
\* Largest position of an edit in SpecApply (one beyond the longest buffer).
MaxPos == 4

\* -------------------------------------------------------- program constant
\* while rounds < 10
MaxRounds == 10

\* ------------------------------------------------------------ input values
\* Documents found in the backing store when the run starts.
Docs == { <<>>, <<"a", "b">> }
\* What the formatter can print on its standard output.
FormatterOutputs == { <<>>, <<"a", "b">>, <<"b">> }
\* Exit statuses of an external program: success and one failure.
ExitStatuses == { 0, 1 }
\* Texts an insertion edit can carry ("" and "X").
InsertTexts == { <<>>, <<"X">> }
\* Positions an insertion edit of the validator can carry: the start of the
\* buffer, the place behind its first character, and one that lies beyond
\* the end of every buffer of the model.
Positions == { 0, 1, MaxBufLen + 1 }

\* One element of a record's "fixes" list, as apply_fixes reads it:
\*   "insert"  a dict whose "edit" holds both "insert" and "at";
\*   "other"   a dict whose "edit" is missing or lacks "insert" or "at";
\*   "nondict" a value without .get (a string, a number);
\*   "nulledit" a dict whose "edit" is a value "in" cannot search (null, a
\*             number).
InsertFix(p, t) == [kind |-> "insert", at |-> p, insert |-> t]
OtherFix == [kind |-> "other", at |-> 0, insert |-> <<>>]
NonDictFix == [kind |-> "nondict", at |-> 0, insert |-> <<>>]
NullEditFix == [kind |-> "nulledit", at |-> 0, insert |-> <<>>]
ValidatorFixes ==
    { InsertFix(p, t) : p \in Positions, t \in InsertTexts } \cup { OtherFix, NonDictFix }

\* One segment of the validator's output, as json.loads reads it:
\*   "text"    not JSON (json.JSONDecodeError), text holds the characters;
\*   "number", "string", "null", "list"   JSON that is no object;
\*   "object"  a JSON object; fixesKind says what its "fixes" member is:
\*             "absent", a "list" (fixes holds its elements) or a "number".
\* end is the line boundary that follows the segment, "" at the end of the
\* text.
TextSeg(t) ==
    [kind |-> "text", text |-> t, fixesKind |-> "absent", fixes |-> <<>>, end |-> ""]
JsonSeg(k) ==
    [kind |-> k, text |-> "", fixesKind |-> "absent", fixes |-> <<>>, end |-> ""]
ObjectSeg(fk, fs) ==
    [kind |-> "object", text |-> "", fixesKind |-> fk, fixes |-> fs, end |-> ""]
EmptySeg == TextSeg("")
\* The segment seg followed by the line boundary b.
EndedBy(seg, b) == [seg EXCEPT !.end = b]
\* The boundaries out.splitlines() splits at: the newline, and the form feed
\* for the others (\x0b \x0c \x1c \x1d \x1e \x85 U+2028 U+2029).
LineBoundaries == { "\n", "\f" }
BudgetText == "max rounds reached"

FixLists ==
    { <<>> } \cup { <<f>> : f \in ValidatorFixes }
             \cup { <<InsertFix(0, <<"X">>), OtherFix>> }
Segments ==
    { EmptySeg, TextSeg(BudgetText) }
        \cup { JsonSeg(k) : k \in {"number", "string", "null", "list"} }
        \cup { ObjectSeg("absent", <<>>), ObjectSeg("number", <<>>) }
        \cup { ObjectSeg("list", fs) : fs \in FixLists }

RECURSIVE SeqsUpTo(_, _)
SeqsUpTo(S, n) ==
    IF n = 0 THEN { <<>> }
    ELSE LET shorter == SeqsUpTo(S, n - 1)
         IN  shorter \cup { Append(s, x) : s \in { t \in shorter : Len(t) = n - 1 }, x \in S }

\* The texts of n segments with the line boundary b behind each but the
\* last.
RECURSIVE TextsOf(_, _)
TextsOf(n, b) ==
    IF n = 1 THEN { <<s>> : s \in Segments }
    ELSE { <<EndedBy(s, b)>> \o t : s \in Segments, t \in TextsOf(n - 1, b) }

\* Every standard output the validator can produce: the texts of at least
\* one segment split by newlines, and the texts of two segments split by
\* another line boundary.
ValidatorOutputs ==
    UNION { TextsOf(n, "\n") : n \in 1..MaxSegs }
        \cup UNION { TextsOf(2, b) : b \in LineBoundaries }

\* -------------------------------------------------------------- Python text
Min(a, b) == IF a < b THEN a ELSE b
Max(a, b) == IF a > b THEN a ELSE b

\* The index at which a slice bound pos cuts a sequence of length n
\* (src[:pos], src[pos:]): negative bounds count from the end, and every
\* bound is clamped into 0..n.
SliceIndex(pos, n) == IF pos < 0 THEN Max(n + pos, 0) ELSE Min(pos, n)

\* The splice overwriting the character at pos instead of keeping it.
SpliceOverwriting(src, pos, text) ==
    LET i == SliceIndex(pos, Len(src))
    IN  SubSeq(src, 1, i) \o text \o SubSeq(src, i + 2, Len(src))

\* src[:pos] + text + src[pos:]
Splice(src, pos, text) ==
    LET i == SliceIndex(pos, Len(src))
    IN  SubSeq(src, 1, i) \o text \o SubSeq(src, i + 1, Len(src))

\* out.splitlines(): the segments of out without their line boundaries, and
\* without the empty segment that follows a final boundary (none at all for
\* the empty text).
splitlines(o) ==
    LET lines == [i \in 1..Len(o) |-> EndedBy(o[i], "")]
    IN  IF o # <<>> /\ o[Len(o)] = EmptySeg THEN SubSeq(lines, 1, Len(o) - 1) ELSE lines

\* What print(x) writes on standard output: the text and a newline, so the
\* last segment of the text ended by the newline, and one empty segment.
Printed(o) == SubSeq(o, 1, Len(o) - 1) \o << EndedBy(o[Len(o)], "\n"), EmptySeg >>

\* print(f"clean after {rounds} round(s)")
CleanMessage(n) == Printed(<<TextSeg("clean after " \o ToString(n) \o " round(s)")>>)
\* print("max rounds reached")
BudgetMessage == Printed(<<TextSeg(BudgetText)>>)

\* ------------------------------------------------------------- apply_fixes
\* f.get("edit", {}) raises AttributeError on an element that is no dict,
\* and "insert" in edit raises TypeError on an edit that is null or a number.
apply_fixes_raises(fixes) ==
    \E i \in 1..Len(fixes) : fixes[i].kind \in {"nondict", "nulledit"}

\* inserts: the (int(edit["at"]), edit["insert"]) pairs of the elements that
\* carry both keys, in the order of fixes.
RECURSIVE Inserts(_)
Inserts(fixes) ==
    IF fixes = <<>> THEN <<>>
    ELSE LET f == Head(fixes)
         IN  (IF f.kind = "insert" THEN << [at |-> f.at, insert |-> f.insert] >> ELSE <<>>)
                 \o Inserts(Tail(fixes))

\* The step of an unstable sort: e goes before the elements of its position.
InsertSortedBeforeTies(s, e) ==
    LET k == Cardinality({ i \in 1..Len(s) : s[i].at > e.at })
    IN  SubSeq(s, 1, k) \o <<e>> \o SubSeq(s, k + 1, Len(s))

\* One step of a stable sort by descending position: e goes behind every
\* element of the sorted sequence s whose position is not smaller.
InsertSorted(s, e) ==
    LET k == Cardinality({ i \in 1..Len(s) : s[i].at >= e.at })
    IN  SubSeq(s, 1, k) \o <<e>> \o SubSeq(s, k + 1, Len(s))

\* The sort left out: the inserts stay in the order of fixes.
SortOmitted(ins) == ins

\* inserts.sort(key=lambda x: x[0], reverse=True): descending by position,
\* elements of equal position keep their original order.
RECURSIVE SortDescending(_)
SortDescending(ins) ==
    IF ins = <<>> THEN <<>>
    ELSE InsertSorted(SortDescending(SubSeq(ins, 1, Len(ins) - 1)), ins[Len(ins)])

\* for pos, text in inserts: src = src[:pos] + text + src[pos:]
RECURSIVE ApplyInserts(_, _)
ApplyInserts(src, ins) ==
    IF ins = <<>> THEN src
    ELSE ApplyInserts(Splice(src, Head(ins).at, Head(ins).insert), Tail(ins))

\* The value apply_fixes returns when it raises nothing.
apply_fixes(src, fixes) == ApplyInserts(src, SortDescending(Inserts(fixes)))

\* --------------------------------------------------------- diagnostic parse
\* d = json.loads(line); fixes.extend(d.get("fixes", [])) on one line:
\* json.JSONDecodeError is caught (the line is skipped); a value that is no
\* object has no .get (AttributeError) and a "fixes" member that is a number
\* cannot be iterated (TypeError): neither is caught.
LineRaises(line) ==
    \/ line.kind \in {"number", "string", "null", "list"}
    \/ line.kind = "object" /\ line.fixesKind = "number"

LineFixes(line) ==
    IF line.kind = "object" /\ line.fixesKind = "list" THEN line.fixes ELSE <<>>

\* The loop over out.splitlines() ends in an uncaught exception.
ParseRaises(o) == \E i \in 1..Len(splitlines(o)) : LineRaises(splitlines(o)[i])

RECURSIVE ExtendAll(_)
ExtendAll(lines) ==
    IF lines = <<>> THEN <<>> ELSE LineFixes(Head(lines)) \o ExtendAll(Tail(lines))

\* The list fixes after the loop, when no line raised.
ParseFixes(o) == ExtendAll(splitlines(o))

\* -------------------------------------------------------------------- state
VARIABLES
    pc,            \* where the run stands
    store,         \* content of the file at path (the backing store)
    src,           \* the buffer of check_and_fix
    rc,            \* exit status of the last external program
    formatted,     \* standard output of the formatter
    out,           \* standard output of the validator in this round
    rounds,        \* the round counter
    exitCode,      \* exit status of the process, -1 while it runs
    stdout,        \* what the process printed, in segments
    outcome,       \* how the run ended, "Running" before
    nFormats,      \* formatter invocations so far
    nWrites,       \* writes of the backing store so far
    nValidations,  \* validator invocations so far
    nApplies,      \* apply_fixes calls that returned so far
    allOffered,    \* every validator run so far rejected and offered an edit
    argc,          \* len(sys.argv)
    nReads,        \* reads of the backing store so far
    launchFailed,  \* the external program that could not be started, or "none"
    childStdin,    \* standard input of the last child process, "none" before
    arg_src,       \* SpecApply: the buffer passed to apply_fixes
    arg_fixes,     \* SpecApply: the list passed to apply_fixes
    ret            \* SpecApply: what the call produced

vars == << pc, store, src, rc, formatted, out, rounds, exitCode, stdout, outcome,
           nFormats, nWrites, nValidations, nApplies, allOffered,
           argc, nReads, launchFailed, childStdin, arg_src, arg_fixes, ret >>

\* What every step but a validator run leaves alone.
aside == << allOffered, argc, arg_src, arg_fixes, ret >>
counters == << nFormats, nWrites, nValidations, nApplies >>

NoCall == [raised |-> FALSE, value |-> <<>>]

\* Numbers of command-line words (sys.argv): the script alone, the script
\* and one argument, the script and two arguments.
ArgCounts == { 1, 2, 3 }

\* The script is started; nothing is read yet.
Init ==
    /\ pc = "Main"
    /\ argc \in ArgCounts
    /\ nReads = 0
    /\ launchFailed = "none"
    /\ childStdin = "none"
    /\ store \in Docs
    /\ src = <<>>
    /\ rc = 0
    /\ formatted = <<>>
    /\ out = <<>>
    /\ rounds = 0
    /\ exitCode = -1
    /\ stdout = <<>>
    /\ outcome = "Running"
    /\ nFormats = 0 /\ nWrites = 0 /\ nValidations = 0 /\ nApplies = 0
    /\ allOffered = TRUE
    /\ arg_src = <<>> /\ arg_fixes = <<>> /\ ret = NoCall

\* The process ends: what it printed, its exit status, and the outcome.
Halt(how, code, printed) ==
    /\ pc' = "Done"
    /\ outcome' = how
    /\ exitCode' = code
    /\ stdout' = printed
    /\ launchFailed' = launchFailed

\* The process ends because subprocess.Popen raised in run(): nothing in
\* check_and_fix catches the exception (traceback, exit status 1).
HaltUnavailable(tool) ==
    /\ pc' = "Done"
    /\ outcome' = "ToolUnavailable"
    /\ exitCode' = 1
    /\ stdout' = <<>>
    /\ launchFailed' = tool

Running == UNCHANGED << exitCode, stdout, outcome, launchFailed >>

\* print("usage: tools/llm_autofix.py <file.braid>")
UsageMessage == Printed(<<TextSeg("usage: tools/llm_autofix.py <file.braid>")>>)

\* if len(sys.argv) != 2: print(usage); sys.exit(2)
UsageError ==
    /\ pc = "Main"
    /\ argc # 2
    /\ Halt("UsageError", 2, UsageMessage)
    /\ UNCHANGED << store, src, rc, formatted, out, rounds, counters, nReads, childStdin, aside >>

\* The argument count tested with <: two arguments are let through.
EnterWithExtraArguments ==
    /\ pc = "Main"
    /\ ~(argc < 2)
    /\ pc' = "Start"
    /\ Running
    /\ UNCHANGED << store, src, rc, formatted, out, rounds, counters, nReads, childStdin, aside >>

\* sys.exit(check_and_fix(sys.argv[1])): check_and_fix is entered.
EnterCheckAndFix ==
    /\ pc = "Main"
    /\ argc = 2
    /\ pc' = "Start"
    /\ Running
    /\ UNCHANGED << store, src, rc, formatted, out, rounds, counters, nReads, childStdin, aside >>

\* The payload of run(): input_bytes, which is None when not passed.
NoPayload == [present |-> FALSE, data |-> <<>>]
Payload(text) == [present |-> TRUE, data |-> text]

\* stdin=subprocess.PIPE if input_bytes else None: a pipe for a payload that
\* is truthy; otherwise the child inherits the standard input of the script.
StdinOf(input) == IF input.present /\ input.data # <<>> THEN "pipe" ELSE "inherited"

\* with open(path,"r") as f: src = f.read()
ReadFile ==
    /\ pc = "Start"
    /\ src' = store
    /\ nReads' = nReads + 1
    /\ pc' = "Format"
    /\ Running
    /\ UNCHANGED << store, rc, formatted, out, rounds, counters, childStdin, aside >>

\* rc, formatted, _ = run(["node","tools/braid-fmt"], input_bytes=...)
RunFormatter ==
    /\ pc = "Format"
    /\ \E r \in ExitStatuses, f \in FormatterOutputs :
          /\ rc' = r
          /\ formatted' = f
    /\ childStdin' = StdinOf(Payload(src))
    /\ nFormats' = nFormats + 1
    /\ pc' = "Adopt"
    /\ Running
    /\ UNCHANGED << store, src, out, rounds, nWrites, nValidations, nApplies, nReads, aside >>

\* subprocess.Popen raises: the formatter cannot be started, and nothing in
\* check_and_fix catches the exception (Python exits with status 1).
FormatterUnavailable ==
    /\ pc = "Format"
    /\ HaltUnavailable("formatter")
    /\ UNCHANGED << store, src, rc, formatted, out, rounds, counters, nReads, childStdin, aside >>

\* The exit status left out of the test: if formatted: src = formatted
AdoptIgnoringStatus ==
    /\ pc = "Adopt"
    /\ src' = IF formatted # <<>> THEN formatted ELSE src
    /\ rounds' = 0
    /\ pc' = "Loop"
    /\ Running
    /\ UNCHANGED << store, rc, formatted, out, counters, nReads, childStdin, aside >>

\* if rc==0 and formatted: src = formatted ; rounds = 0
AdoptFormatted ==
    /\ pc = "Adopt"
    /\ src' = IF rc = 0 /\ formatted # <<>> THEN formatted ELSE src
    /\ rounds' = 0
    /\ pc' = "Loop"
    /\ Running
    /\ UNCHANGED << store, rc, formatted, out, counters, nReads, childStdin, aside >>

\* The write hoisted out of the loop: the store is written in round 1 only.
WriteStoreFirstRoundOnly ==
    /\ pc = "Loop"
    /\ rounds < MaxRounds
    /\ rounds' = rounds + 1
    /\ store' = IF rounds = 0 THEN src ELSE store
    /\ formatted' = <<>>
    /\ out' = <<>>
    /\ nWrites' = IF rounds = 0 THEN nWrites + 1 ELSE nWrites
    /\ pc' = "Validate"
    /\ Running
    /\ UNCHANGED << src, rc, nFormats, nValidations, nApplies, nReads, childStdin, aside >>

\* while rounds < 10: rounds += 1 ; with open(path,"w") as f: f.write(src)
\* formatted is never read inside the loop and out is read no more before the
\* validator runs again; the model forgets both here.
WriteStore ==
    /\ pc = "Loop"
    /\ rounds < MaxRounds
    /\ rounds' = rounds + 1
    /\ store' = src
    /\ formatted' = <<>>
    /\ out' = <<>>
    /\ nWrites' = nWrites + 1
    /\ pc' = "Validate"
    /\ Running
    /\ UNCHANGED << src, rc, nFormats, nValidations, nApplies, nReads, childStdin, aside >>

\* The buffer written once more before the budget is reported exhausted.
BudgetExhaustedAfterWrite ==
    /\ pc = "Loop"
    /\ ~(rounds < MaxRounds)
    /\ store' = src
    /\ nWrites' = nWrites + 1
    /\ Halt("FailedMaxRounds", 1, BudgetMessage)
    /\ UNCHANGED << src, rc, formatted, out, rounds, nFormats, nValidations, nApplies, nReads,
                    childStdin, aside >>

\* the loop condition fails: print("max rounds reached"); return 1
BudgetExhausted ==
    /\ pc = "Loop"
    /\ ~(rounds < MaxRounds)
    /\ Halt("FailedMaxRounds", 1, BudgetMessage)
    /\ UNCHANGED << store, src, rc, formatted, out, rounds, counters, nReads, childStdin, aside >>

\* rc, out, _ = run(["node","tools/braid-check", path])
\* The validator offers no edits that grow the buffer beyond MaxBufLen.
RunValidator ==
    /\ pc = "Validate"
    /\ \E r \in ExitStatuses, o \in ValidatorOutputs :
          /\ Len(apply_fixes(src, ParseFixes(o))) <= MaxBufLen
          /\ rc' = r
          /\ out' = o
          /\ allOffered' = (allOffered /\ r # 0 /\ Inserts(ParseFixes(o)) # <<>>)
    /\ childStdin' = StdinOf(NoPayload)
    /\ nValidations' = nValidations + 1
    /\ pc' = "Check"
    /\ Running
    /\ UNCHANGED << store, src, formatted, rounds, nFormats, nWrites, nApplies, nReads,
                    argc, arg_src, arg_fixes, ret >>

\* The failure to start the validator caught, and the next round entered.
ValidatorUnavailableRetried ==
    /\ pc = "Validate"
    /\ launchFailed' = "validator"
    /\ pc' = "Loop"
    /\ UNCHANGED << store, src, rc, formatted, out, rounds, counters, nReads, childStdin, aside,
                    exitCode, stdout, outcome >>

\* subprocess.Popen raises: the validator cannot be started.
ValidatorUnavailable ==
    /\ pc = "Validate"
    /\ HaltUnavailable("validator")
    /\ UNCHANGED << store, src, rc, formatted, out, rounds, counters, nReads, childStdin, aside >>

\* The exit status tested after the fixes were applied: a clean document is
\* still edited when the validator's output carries fixes.
AcceptedAfterApplying ==
    /\ pc = "Check"
    /\ rc = 0
    /\ Halt("Succeeded", 0, CleanMessage(rounds))
    /\ src' = IF ParseRaises(out) \/ apply_fixes_raises(ParseFixes(out))
              THEN src ELSE apply_fixes(src, ParseFixes(out))
    /\ nApplies' = IF ParseFixes(out) # <<>> THEN nApplies + 1 ELSE nApplies
    /\ UNCHANGED << store, rc, formatted, out, rounds, nFormats, nWrites, nValidations, nReads, childStdin, aside >>

\* if rc == 0: print(f"clean after {rounds} round(s)"); return 0
Accepted ==
    /\ pc = "Check"
    /\ rc = 0
    /\ Halt("Succeeded", 0, CleanMessage(rounds))
    /\ UNCHANGED << store, src, rc, formatted, out, rounds, counters, nReads, childStdin, aside >>

\* The loop over out.splitlines() raises AttributeError or TypeError, which
\* nothing catches: traceback on standard error, exit status 1.
ParseFails ==
    /\ pc = "Check"
    /\ rc # 0
    /\ ParseRaises(out)
    /\ Halt("UncaughtException", 1, <<>>)
    /\ UNCHANGED << store, src, rc, formatted, out, rounds, counters, nReads, childStdin, aside >>

\* if not fixes: print(out); return 1
NoFixes ==
    /\ pc = "Check"
    /\ rc # 0
    /\ ~ParseRaises(out)
    /\ ParseFixes(out) = <<>>
    /\ Halt("FailedNoFixes", 1, Printed(out))
    /\ UNCHANGED << store, src, rc, formatted, out, rounds, counters, nReads, childStdin, aside >>

\* The formatter run again on the edited buffer before the next round.
ApplyFixesThenReformat ==
    /\ pc = "Check"
    /\ rc # 0
    /\ ~ParseRaises(out)
    /\ ParseFixes(out) # <<>>
    /\ ~apply_fixes_raises(ParseFixes(out))
    /\ src' = apply_fixes(src, ParseFixes(out))
    /\ nApplies' = nApplies + 1
    /\ pc' = "Format"
    /\ Running
    /\ UNCHANGED << store, rc, formatted, out, rounds, nFormats, nWrites, nValidations, nReads, childStdin, aside >>

\* Only the first of the round's fixes handed to apply_fixes.
ApplyFirstFixOnly ==
    /\ pc = "Check"
    /\ rc # 0
    /\ ~ParseRaises(out)
    /\ ParseFixes(out) # <<>>
    /\ ~apply_fixes_raises(ParseFixes(out))
    /\ src' = apply_fixes(src, <<Head(ParseFixes(out))>>)
    /\ nApplies' = nApplies + 1
    /\ pc' = "Loop"
    /\ Running
    /\ UNCHANGED << store, rc, formatted, out, rounds, nFormats, nWrites, nValidations, nReads, childStdin, aside >>

\* src = apply_fixes(src, fixes), and back to the loop condition.
ApplyFixes ==
    /\ pc = "Check"
    /\ rc # 0
    /\ ~ParseRaises(out)
    /\ ParseFixes(out) # <<>>
    /\ ~apply_fixes_raises(ParseFixes(out))
    /\ src' = apply_fixes(src, ParseFixes(out))
    /\ nApplies' = nApplies + 1
    /\ pc' = "Loop"
    /\ Running
    /\ UNCHANGED << store, rc, formatted, out, rounds, nFormats, nWrites, nValidations, nReads, childStdin, aside >>

\* apply_fixes raises AttributeError on an element of fixes that is no dict.
ApplyFails ==
    /\ pc = "Check"
    /\ rc # 0
    /\ ~ParseRaises(out)
    /\ ParseFixes(out) # <<>>
    /\ apply_fixes_raises(ParseFixes(out))
    /\ Halt("UncaughtException", 1, <<>>)
    /\ UNCHANGED << store, src, rc, formatted, out, rounds, counters, nReads, childStdin, aside >>

Next ==
    \/ UsageError
    \/ EnterCheckAndFix
    \/ ReadFile
    \/ RunFormatter
    \/ FormatterUnavailable
    \/ AdoptFormatted
    \/ WriteStore
    \/ BudgetExhausted
    \/ RunValidator
    \/ ValidatorUnavailable
    \/ Accepted
    \/ ParseFails
    \/ NoFixes
    \/ ApplyFixes
    \/ ApplyFails

Spec == Init /\ [][Next]_vars

\* ------------------------------------------------- apply_fixes on its own
\* Buffers and fix lists apply_fixes is called with in SpecApply.
ApplyBuffers == { <<>>, <<"a">>, <<"a", "b", "c">> }
ApplyTexts == { <<"X">>, <<"Y", "Z">> }
\* A position before the start (Python counts it from the end), every
\* offset of the longest buffer, and one beyond its end.
ApplyPositions == (0 - 1)..MaxPos
ApplyFixValues ==
    { InsertFix(p, t) : p \in ApplyPositions, t \in ApplyTexts }
        \cup { OtherFix, NonDictFix, NullEditFix }
ApplyFixLists == SeqsUpTo(ApplyFixValues, MaxEdits)

InitApply ==
    /\ pc = "ApplyCall"
    /\ arg_src \in ApplyBuffers
    /\ arg_fixes \in ApplyFixLists
    /\ ret = NoCall
    /\ store = <<>> /\ src = <<>> /\ rc = 0 /\ formatted = <<>> /\ out = <<>>
    /\ rounds = 0 /\ exitCode = -1 /\ stdout = <<>> /\ outcome = "Running"
    /\ nFormats = 0 /\ nWrites = 0 /\ nValidations = 0 /\ nApplies = 0
    /\ allOffered = TRUE
    /\ argc = 2 /\ nReads = 0 /\ launchFailed = "none" /\ childStdin = "none"

\* The variables of check_and_fix, which apply_fixes on its own leaves alone.
main == << store, src, rc, formatted, out, rounds, exitCode, stdout, outcome, counters,
          allOffered, argc, nReads, launchFailed, childStdin >>

\* apply_fixes(arg_src, arg_fixes) returns.
ApplyReturns ==
    /\ pc = "ApplyCall"
    /\ ~apply_fixes_raises(arg_fixes)
    /\ ret' = [raised |-> FALSE, value |-> apply_fixes(arg_src, arg_fixes)]
    /\ pc' = "ApplyDone"
    /\ UNCHANGED << main, arg_src, arg_fixes >>

\* apply_fixes(arg_src, arg_fixes) raises AttributeError or TypeError.
ApplyRaises ==
    /\ pc = "ApplyCall"
    /\ apply_fixes_raises(arg_fixes)
    /\ ret' = [raised |-> TRUE, value |-> <<>>]
    /\ pc' = "ApplyDone"
    /\ UNCHANGED << main, arg_src, arg_fixes >>

NextApply == ApplyReturns \/ ApplyRaises

SpecApply == InitApply /\ [][NextApply]_vars

\* ------------------------------------------------------------------ claims
Terminal == { "Succeeded", "FailedNoFixes", "FailedMaxRounds" }

\* The validator's output offers an insertion edit: a record whose fixes
\* list holds an element with a position and a text to insert.
OffersEdit(o) == Inserts(ParseFixes(o)) # <<>>

\* C1: when every external program could be started, a run that has ended
\* has ended in Succeeded, FailedNoFixes or FailedMaxRounds, and no run
\* invokes the validator more than 10 times.
C1_EndsInTerminalOutcome ==
    /\ nValidations <= MaxRounds
    /\ (pc = "Done" /\ argc = 2 /\ outcome # "ToolUnavailable") => outcome \in Terminal

\* C2: a round in which the validator exits non-zero and the parse finds no
\* insertion edit ends the run in that round in FailedNoFixes, exit status 1,
\* the validator's output echoed; also when the records list fixes that
\* carry no insertion edit.
C2_NoEditsEndsInNoFixes ==
    [][ (pc = "Check" /\ rc # 0 /\ ~ParseRaises(out) /\ ~OffersEdit(out)
            /\ ~apply_fixes_raises(ParseFixes(out)))
        => (pc' = "Done" /\ outcome' = "FailedNoFixes" /\ exitCode' = 1
            /\ stdout' = Printed(out)) ]_vars

\* C3: a run in which the validator rejected and offered at least one edit
\* in every round ends in FailedMaxRounds after exactly 10 validator
\* invocations, exit status 1 and the budget message.
C3_AlwaysOfferedEndsInMaxRounds ==
    (pc = "Done" /\ argc = 2 /\ outcome # "ToolUnavailable" /\ allOffered)
        => /\ outcome = "FailedMaxRounds"
           /\ nValidations = MaxRounds
           /\ rounds = MaxRounds
           /\ exitCode = 1
           /\ stdout = BudgetMessage

\* C4: when the validator exits 0 in round k the run ends at once with exit
\* status 0 and reports k, the number of validator invocations so far; the
\* buffer is not edited in that round, and k-1 edit applications happened.
C4_AcceptedReportsRounds ==
    [][ (pc = "Check" /\ rc = 0)
        => /\ pc' = "Done" /\ outcome' = "Succeeded" /\ exitCode' = 0
           /\ stdout' = CleanMessage(nValidations)
           /\ rounds = nValidations /\ rounds \in 1..MaxRounds
           /\ src' = src /\ store' = store
           /\ nApplies' = nApplies /\ nApplies = nValidations - 1 ]_vars

\* C4 witness: accepted in round 3 on an output that carries an edit.
C4_Witness ==
    /\ outcome = "Succeeded" /\ nValidations = 3 /\ nApplies = 2
    /\ stdout = CleanMessage(3)
    /\ OffersEdit(out)

\* The reference splice: one pass over the offsets 0..Len(src) of the
\* original buffer, each edit's text put right before the character that
\* stood at its position (at the end for position Len(src)).
TextAt(edits, i) ==
    IF \E k \in 1..Len(edits) : edits[k].at = i
    THEN edits[CHOOSE k \in 1..Len(edits) : edits[k].at = i].insert
    ELSE <<>>

RECURSIVE ReferenceFrom(_, _, _)
ReferenceFrom(buf, edits, i) ==
    IF i > Len(buf) THEN <<>>
    ELSE TextAt(edits, i) \o (IF i < Len(buf) THEN <<buf[i + 1]>> ELSE <<>>)
             \o ReferenceFrom(buf, edits, i + 1)

ReferenceSplice(buf, edits) == ReferenceFrom(buf, edits, 0)

\* Insertion edits only, at pairwise distinct positions within 0..Len(buf).
DistinctValidEdits(buf, edits) ==
    /\ \A i \in 1..Len(edits) : edits[i].kind = "insert" /\ edits[i].at \in 0..Len(buf)
    /\ \A i, j \in 1..Len(edits) : i # j => edits[i].at # edits[j].at

Bijections(n) == { f \in [1..n -> 1..n] : \A i, j \in 1..n : i # j => f[i] # f[j] }
Permuted(edits, f) == [i \in 1..Len(edits) |-> edits[f[i]]]

\* C5: for insertion edits at pairwise distinct valid positions apply_fixes
\* returns the reference splice, and returns it for every permutation of
\* the edit sequence.
C5_OffsetStability ==
    (pc = "ApplyDone" /\ DistinctValidEdits(arg_src, arg_fixes))
        => /\ ~ret.raised
           /\ ret.value = ReferenceSplice(arg_src, arg_fixes)
           /\ \A f \in Bijections(Len(arg_fixes)) :
                 apply_fixes(arg_src, Permuted(arg_fixes, f)) = ret.value

\* C5 witness: "abc" with an edit at 0 and an edit at 3, given in ascending
\* order, and "abc" unchanged between them.
C5_Witness ==
    /\ pc = "ApplyDone"
    /\ arg_src = <<"a", "b", "c">>
    /\ arg_fixes = << InsertFix(0, <<"X">>), InsertFix(3, <<"Y", "Z">>) >>
    /\ ret = [raised |-> FALSE, value |-> <<"X", "a", "b", "c", "Y", "Z">>]

\* Some edit of the sorted sequence ins is applied to a buffer that is
\* shorter than the edit's position.
RECURSIVE BeyondEnd(_, _)
BeyondEnd(buf, ins) ==
    /\ ins # <<>>
    /\ \/ Head(ins).at > Len(buf)
       \/ BeyondEnd(Splice(buf, Head(ins).at, Head(ins).insert), Tail(ins))

AppliesBeyondEnd(buf, fixes) == BeyondEnd(buf, SortDescending(Inserts(fixes)))

\* C6: a round whose edits include a position greater than the length of the
\* buffer it is applied to ends the run in an error; the controller never
\* keeps a buffer with that edit clamped or dropped and never validates it.
C6_OutOfRangeFailsLoudly ==
    [][ (pc = "Check" /\ rc # 0 /\ ~ParseRaises(out)
            /\ AppliesBeyondEnd(src, ParseFixes(out)))
        => (pc' = "Done" /\ outcome' \notin Terminal) ]_vars

\* A segment that is no structured record: text that is not JSON, JSON that
\* is no object, or an object without a fixes list.
NonRecord(line) == ~(line.kind = "object" /\ line.fixesKind = "list")

\* C7: lines that are no structured records contribute no edits and never
\* abort the run: a round whose records are well formed ends in a terminal
\* outcome or goes on with the edits of the records, in line order, applied.
C7_NonRecordLinesAreSkipped ==
    [][ (pc = "Check" /\ rc # 0
            /\ (\E i \in 1..Len(splitlines(out)) : NonRecord(splitlines(out)[i]))
            /\ ~apply_fixes_raises(ParseFixes(out)))
        => /\ outcome' \in Terminal \cup {"Running"}
           /\ pc' = "Loop" => src' = apply_fixes(src, ParseFixes(out)) ]_vars

\* C8: the store is written once per round, before the validator runs, and
\* whenever the validator is about to run or has just run, the store holds
\* the controller's buffer.
C8_ValidatorSeesBuffer ==
    /\ nWrites = rounds
    /\ pc = "Validate" => (store = src /\ nValidations = rounds - 1)
    /\ pc = "Check" => (store = src /\ nValidations = rounds)

\* C8 witness: the validator is about to run in round 3 on a buffer that two
\* rounds of edits have changed.
C8_Witness ==
    /\ pc = "Validate" /\ rounds = 3 /\ nApplies = 2
    /\ store = <<"a", "X", "b">>

\* What the caller observes of a finished run.
Signal == << exitCode, stdout >>
BudgetSignal == << 1, BudgetMessage >>
CleanSignals == { << 0, CleanMessage(k) >> : k \in 1..MaxRounds }

\* C9: the three terminal outcomes give pairwise distinct signals: a run
\* that ended in FailedNoFixes or Succeeded never shows the signal of
\* FailedMaxRounds, and a failed run never shows a signal of Succeeded.
C9_DistinctSignals ==
    /\ outcome = "FailedNoFixes" => (Signal # BudgetSignal /\ Signal \notin CleanSignals)
    /\ outcome = "Succeeded" => (Signal # BudgetSignal /\ Signal \in CleanSignals)
    /\ outcome = "FailedMaxRounds" => (Signal = BudgetSignal /\ Signal \notin CleanSignals)

\* The formatter's output is adopted: if rc==0 and formatted.
Adopts == rc = 0 /\ formatted # <<>>

\* C10 as stated: after the formatting step the buffer equals the
\* formatter's output if and only if the formatter exited 0 with non-empty
\* output; otherwise it is as read from the store; round 1 follows.
C10_AdoptedIffCleanAndNonEmpty ==
    [][ (pc = "Adopt")
        => /\ (src' = formatted) <=> Adopts
           /\ ~Adopts => (src' = src /\ src' = store)
           /\ pc' = "Loop" /\ rounds' = 0 ]_vars

\* C10 amended: the buffer is the formatter's output when the formatter
\* exited 0 with non-empty output, and otherwise is left as read from the
\* store, so that it equals the formatter's output exactly when that output
\* was adopted or is the document itself; round 1 follows in every case.
C10_AdoptedOrKept ==
    [][ /\ (pc = "Adopt")
           => /\ Adopts => src' = formatted
              /\ ~Adopts => (src' = src /\ src' = store)
              /\ (src' = formatted) <=> (Adopts \/ formatted = store)
              /\ pc' = "Loop" /\ rounds' = 0 /\ store' = store
        /\ (pc = "Loop" /\ rounds = 0)
           => (pc' = "Validate" /\ rounds' = 1 /\ src' = src) ]_vars

\* C10 witness: the formatter failed while printing text, the buffer is
\* still the document read, and the loop is about to start.
C10_Witness ==
    /\ pc = "Loop" /\ rounds = 0 /\ nFormats = 1
    /\ rc = 1 /\ formatted = <<"b">>
    /\ src = <<"a", "b">> /\ src = store

\* C11: a command line without exactly one argument ends the program with
\* exit status 2 and no side effect (no read or write of the store, no
\* external program), and exit status 2 arises in no other way.
C11_UsageErrorOnly ==
    /\ (argc # 2 /\ pc = "Done")
          => (exitCode = 2 /\ outcome = "UsageError" /\ stdout = UsageMessage)
    /\ argc # 2
          => /\ pc \in {"Main", "Done"}
             /\ nReads = 0 /\ nWrites = 0 /\ nFormats = 0 /\ nValidations = 0
             /\ launchFailed = "none" /\ childStdin = "none"
    /\ exitCode = 2 => argc # 2

\* C11 witness: the script was given two arguments and has exited with 2.
C11_Witness ==
    /\ pc = "Done" /\ argc = 3 /\ exitCode = 2
    /\ store = <<"a", "b">> /\ nReads = 0

\* Insertion edits only, each at a position within 0..Len(buf); positions
\* may repeat.
ValidEdits(buf, edits) ==
    \A i \in 1..Len(edits) : edits[i].kind = "insert" /\ edits[i].at \in 0..Len(buf)

RECURSIVE SumOfInsertLengths(_)
SumOfInsertLengths(edits) ==
    IF edits = <<>> THEN 0 ELSE Len(Head(edits).insert) + SumOfInsertLengths(Tail(edits))

\* C12: for insertion edits at positions within 0..Len(buffer), in any order
\* and with repeated positions, the result of apply_fixes is as long as the
\* buffer plus the inserted texts together.
C12_LengthGrowsBySum ==
    (pc = "ApplyDone" /\ ValidEdits(arg_src, arg_fixes))
        => /\ ~ret.raised
           /\ Len(ret.value) = Len(arg_src) + SumOfInsertLengths(arg_fixes)

\* C12 witness: three edits on "abc", out of order and two of them at the
\* same position; the result has 3 + 2 + 1 + 1 characters.
C12_Witness ==
    /\ pc = "ApplyDone"
    /\ arg_src = <<"a", "b", "c">>
    /\ arg_fixes = << InsertFix(3, <<"Y", "Z">>), InsertFix(0, <<"X">>), InsertFix(3, <<"X">>) >>
    /\ ~ret.raised /\ Len(ret.value) = 7

\* C13 (as the specification states it): apply_fixes returns its input
\* unchanged whenever the edit sequence contains no insertion edit, every
\* other entry being ignored.
C13_NoInsertionReturnsInput ==
    (pc = "ApplyDone" /\ Inserts(arg_fixes) = <<>>)
        => (~ret.raised /\ ret.value = arg_src)

\* The texts of the edits at offset i, the text of the edit produced last
\* first.
RECURSIVE TiedTextAt(_, _)
TiedTextAt(edits, i) ==
    IF edits = <<>> THEN <<>>
    ELSE TiedTextAt(Tail(edits), i)
             \o (IF Head(edits).at = i THEN Head(edits).insert ELSE <<>>)

\* The reference splice with ties: at every offset of the original buffer
\* the texts of the edits at that offset, last produced first.
RECURSIVE TiedReferenceFrom(_, _, _)
TiedReferenceFrom(buf, edits, i) ==
    IF i > Len(buf) THEN <<>>
    ELSE TiedTextAt(edits, i) \o (IF i < Len(buf) THEN <<buf[i + 1]>> ELSE <<>>)
             \o TiedReferenceFrom(buf, edits, i + 1)

\* C16: edits at the same position are applied in the order they were
\* produced, each at that same offset, so that at the position the text of
\* the edit produced later stands immediately before the text of the earlier.
C16_TiesInProductionOrder ==
    (pc = "ApplyDone" /\ ValidEdits(arg_src, arg_fixes))
        => /\ ~ret.raised
           /\ ret.value = TiedReferenceFrom(arg_src, arg_fixes, 0)

\* C16 witness: A = "X" then B = "YZ", both at position 2 of "abc".
C16_Witness ==
    /\ pc = "ApplyDone"
    /\ arg_src = <<"a", "b", "c">>
    /\ arg_fixes = << InsertFix(2, <<"X">>), InsertFix(2, <<"Y", "Z">>) >>
    /\ ret = [raised |-> FALSE, value |-> <<"a", "b", "Y", "Z", "X", "c">>]

\* C14: the formatter runs at most once, before every validator run and
\* every write of the store; after it validations and applications
\* alternate, each validation followed by at most one application.
C14_FormatOnceThenAlternate ==
    /\ nFormats <= 1
    /\ (nWrites > 0 \/ nValidations > 0) => nFormats = 1
    /\ nApplies <= nValidations /\ nValidations <= nApplies + 1
    /\ pc \in {"Loop", "Validate"} => nValidations = nApplies
    /\ pc = "Check" => nValidations = nApplies + 1

\* C14 witness: the third validation has run after two applications and one
\* formatter run.
C14_Witness ==
    /\ pc = "Check" /\ nFormats = 1 /\ nValidations = 3 /\ nApplies = 2 /\ rounds = 3

\* C15: a formatter or validator that cannot be started ends the run at
\* once in a fatal error that is none of the terminal outcomes: the step
\* that fails changes neither buffer nor store and starts nothing, no step
\* follows it, and a formatter failure comes before any write of the store.
C15_LaunchFailureIsFatal ==
    [][ /\ launchFailed = "none"
        /\ launchFailed' # "none"
              => /\ pc' = "Done"
                 /\ outcome' \notin Terminal /\ exitCode' = 1
                 /\ src' = src /\ store' = store /\ rounds' = rounds
                 /\ counters' = counters
                 /\ (launchFailed' = "formatter" => nWrites' = 0 /\ nValidations' = 0)
                 /\ (launchFailed' = "validator" => src' = store') ]_vars

\* C15 witness: the validator could not be started in round 2, after the
\* edits of round 1 were applied and written.
C15_Witness ==
    /\ pc = "Done" /\ launchFailed = "validator" /\ outcome = "ToolUnavailable"
    /\ rounds = 2 /\ nValidations = 1 /\ nApplies = 1 /\ nWrites = 2
    /\ store = <<"X">>

\* C17: in a round that applies edits, all edits extracted from the round's
\* validator output go into one apply_fixes call on exactly the buffer that
\* was written and validated in that round; the buffer changes in no other
\* step of the loop.
C17_RoundEditsAppliedTogether ==
    [][ /\ (pc = "Check" /\ pc' = "Loop")
              => /\ src = store
                 /\ src' = apply_fixes(store, ParseFixes(out))
                 /\ nApplies' = nApplies + 1
                 /\ nValidations = rounds /\ nApplies = rounds - 1
        /\ (src' # src /\ pc \notin {"Start", "Adopt"})
              => (pc = "Check" /\ pc' = "Loop") ]_vars

\* C17 witness: round 1 on the empty document extracted two insertions from
\* two records and applied both.
C17_Witness ==
    /\ pc = "Loop" /\ rounds = 1 /\ nApplies = 1
    /\ store = <<>> /\ src = <<"X", "X">>
    /\ Len(Inserts(ParseFixes(out))) = 2

\* C18: on normal termination the store holds the buffer the last validator
\* run examined: the final buffer after Succeeded and FailedNoFixes; after
\* FailedMaxRounds the edits of round 10 are applied to the buffer in memory
\* and are not in the store.
C18_StoreHoldsLastValidated ==
    /\ outcome \in {"Succeeded", "FailedNoFixes"}
          => (store = src /\ nWrites = rounds /\ nValidations = rounds)
    /\ outcome = "FailedMaxRounds"
          => /\ rounds = MaxRounds
             /\ nWrites = MaxRounds /\ nValidations = MaxRounds /\ nApplies = MaxRounds
             /\ src = apply_fixes(store, ParseFixes(out))

\* C18 witness: the budget ran out with round 10's edit in the buffer only.
C18_Witness ==
    /\ outcome = "FailedMaxRounds"
    /\ src # store /\ Len(src) > Len(store)

\* C19 (as the specification states it): the formatter is given the buffer
\* on its input channel for every document, the empty one included.
C19_FormatterFedOnInputChannel ==
    pc = "Adopt" => childStdin = "pipe"

====
